---- MODULE Spec2Model ----
(***************************************************************************)
(* Model of backend/server.py: token authentication over the users and     *)
(* sessions tables, the in-memory per-user RAG session (user_sessions),    *)
(* the upload / status / ask / clear handlers and the three RAG chains.    *)
(*                                                                         *)
(* Handlers are `async def` coroutines served by one event loop (uvicorn   *)
(* with a single worker), so a handler runs without interruption between   *)
(* two `await`s.  The only `await` in a handler's body that can suspend it *)
(* is `await file.read()` in upload_document; that handler is two actions. *)
(* verify_token is a plain `def` dependency: FastAPI awaits it in a worker *)
(* thread before the body starts, so other handlers can run between the    *)
(* validation of a token and the body.  logout, whose body writes the      *)
(* table verify_token reads, is two actions.  The bodies of the other      *)
(* protected handlers read and write neither the sessions table nor the    *)
(* clock's relation to a token; their validation is taken at the start of  *)
(* the body.                                                               *)
(*                                                                         *)
(* Optional values (Python None) are sequences of length 0 or 1.           *)
(* Times are whole days.                                                   *)
(***************************************************************************)
EXTENDS Integers, Sequences, FiniteSets, TLC

VARIABLES
    users,          \* table users: sequence of rows, in id order
    sessions,       \* table sessions (the token records): set of rows
    documents,      \* table documents: sequence of rows, in id order
    conversations,  \* table conversations: sequence of rows, in id order
    user_sessions,  \* dict user_id -> UserSession
    now,            \* datetime.now()
    nextToken,      \* tokens generated so far (stands for the random source)
    nextObj,        \* Document objects constructed so far
    inflight,       \* upload_document calls suspended at `await file.read()`
                    \* and logout calls whose token is validated
    resp            \* the last handler run and what it returned

vars == <<users, sessions, documents, conversations, user_sessions, now,
          nextToken, nextObj, inflight, resp>>

\* ---------------------------------------------------------------- bounds
MaxTime == 9
MaxTokens == 3
MaxObj == 2
MaxConv == 1
MaxRows == 2
MaxInflight == 1
MaxLogouts == 2

\* ------------------------------------------------------ program constants
TokenDays == 7
MinContent == 50
RetrieverK == 4
SourceTop == 3
HistoryLimit == 50

None == <<>>
Some(x) == <<x>>

Usernames == {"alice", "bob"}
Emails == {"a@x.com", "b@x.com"}
Passwords == {"pw1", "pw2"}

\* ------------------------------------------------------------- utilities
Last(s) == s[Len(s)]

Range(s) == {s[i] : i \in 1..Len(s)}

RECURSIVE SeqOfSet(_)
SeqOfSet(S) ==
    IF S = {} THEN <<>>
    ELSE LET x == CHOOSE y \in S : TRUE IN <<x>> \o SeqOfSet(S \ {x})

\* hashlib.sha256(password.encode()).hexdigest(): deterministic, one-way
hash_password(password) == <<"sha256", password>>

\* ---------------------------------------------------------- verify_token
\* faulty variant: the expiry of the token is not looked at
TokenRowsAnyTime(token) ==
    {s \in sessions :
        /\ token # None
        /\ s.token = token[1]
        /\ \E i \in 1..Len(users) : users[i].id = s.user_id}

\* faulty variant: a token is still accepted at the instant it expires
TokenRowsInclusive(token) ==
    {s \in sessions :
        /\ token # None
        /\ s.token = token[1]
        /\ s.expires_at >= now
        /\ \E i \in 1..Len(users) : users[i].id = s.user_id}

\* token is None (no header) or Some(value).  The query joins sessions to
\* users on user_id and keeps rows with expires_at > now.
TokenRows(token) ==
    {s \in sessions :
        /\ token # None
        /\ s.token = token[1]
        /\ s.expires_at > now
        /\ \E i \in 1..Len(users) : users[i].id = s.user_id}

UserById(id) == users[CHOOSE i \in 1..Len(users) : users[i].id = id]

verify_token(token) ==
    IF token = None THEN None
    ELSE IF TokenRows(token) = {} THEN None
    ELSE LET s == CHOOSE r \in TokenRows(token) : TRUE
             u == UserById(s.user_id)
         IN Some([user_id |-> u.id, username |-> u.username, email |-> u.email])

Unauthorized(op, token) == [op |-> op, status |-> 401, token |-> token]

\* ------------------------------------------------------------ UserSession
\* hist and cleared are history fields.  hist is the last operation that
\* wrote the corpus fields: "new", "clear", "upload", or "unsaved" for an
\* upload that built its index and whose INSERT into documents raised.
\* cleared is whether a clear has run with no upload completed since.
NewSession ==
    [vectorstore |-> None, retriever |-> None, documents |-> <<>>,
     source_name |-> None, source_type |-> None, document_id |-> None,
     hist |-> "new", cleared |-> FALSE]

Cleared(s) ==
    [s EXCEPT !.vectorstore = None, !.retriever = None, !.documents = <<>>,
              !.source_name = None, !.source_type = None,
              !.document_id = None, !.hist = "clear", !.cleared = TRUE]

\* get_user_session: the dict after the call (the session is created on
\* first use) and the session it returns
SessionsWith(uid) ==
    IF uid \in DOMAIN user_sessions THEN user_sessions
    ELSE [k \in DOMAIN user_sessions \cup {uid} |->
            IF k = uid THEN NewSession ELSE user_sessions[k]]

get_user_session(uid) == SessionsWith(uid)[uid]

\* faulty variant: one session object serves every user
SetSessionShared(uid, s) ==
    [u \in DOMAIN SessionsWith(uid) |-> s]

SetSession(uid, s) ==
    [k \in DOMAIN user_sessions \cup {uid} |->
        IF k = uid THEN s ELSE user_sessions[k]]

\* =========================================================== credentials
\* faulty variant: only the username is looked up
UserExistsByName(username, email) ==
    \E i \in 1..Len(users) : users[i].username = username

\* register, line 465: SELECT id FROM users WHERE username = ? OR email = ?
UserExists(username, email) ==
    \E i \in 1..Len(users) :
        users[i].username = username \/ users[i].email = email

\* users.username and users.email are UNIQUE: the INSERT raises otherwise
UsersUnique(username, email) ==
    \A i \in 1..Len(users) :
        users[i].username # username /\ users[i].email # email

\* cursor.lastrowid of an INSERT into users (AUTOINCREMENT, no row deleted)
NewUserId == Len(users) + 1

\* faulty variant: the token is stored for the first user, whoever it is issued to
TokenRowFirstUser(user_id, by, name, mail) ==
    [user_id |-> 1, token |-> nextToken + 1, created_at |-> now,
     expires_at |-> now + TokenDays, by |-> by, name |-> name, mail |-> mail]

\* generate_token, datetime.now() + timedelta(days=7), INSERT INTO sessions.
\* by/name/mail are history fields: the handler that issued the token and
\* the username and email it returned with it.
TokenRow(user_id, by, name, mail) ==
    [user_id |-> user_id, token |-> nextToken + 1, created_at |-> now,
     expires_at |-> now + TokenDays, by |-> by, name |-> name, mail |-> mail]

Register(username, email, password) ==
    /\ IF UserExists(username, email)
       THEN /\ resp' = [op |-> "register", status |-> 400,
                        username |-> username, email |-> email]
            /\ UNCHANGED <<users, sessions, nextToken>>
       ELSE IF ~UsersUnique(username, email)
       THEN \* sqlite3.IntegrityError, caught by `except Exception`; the
            \* connection is closed without a commit
            /\ resp' = [op |-> "register", status |-> 500,
                        username |-> username, email |-> email]
            /\ UNCHANGED <<users, sessions, nextToken>>
       ELSE /\ nextToken < MaxTokens
            /\ users' = Append(users,
                   [id |-> NewUserId, username |-> username, email |-> email,
                    password_hash |-> hash_password(password)])
            /\ sessions' = sessions \cup
                   {TokenRow(NewUserId, "register", username, email)}
            /\ nextToken' = nextToken + 1
            /\ resp' = [op |-> "register", status |-> 200,
                        token |-> nextToken + 1,
                        username |-> username, email |-> email]
    /\ UNCHANGED <<documents, conversations, user_sessions, now,
                   nextObj, inflight>>

\* login, line 516: SELECT ... WHERE username = ? AND password_hash = ?
LoginRows(username, password) ==
    {i \in 1..Len(users) :
        /\ users[i].username = username
        /\ users[i].password_hash = hash_password(password)}

Login(username, password) ==
    /\ IF LoginRows(username, password) = {}
       THEN /\ resp' = [op |-> "login", status |-> 401,
                        username |-> username]
            /\ UNCHANGED <<sessions, nextToken>>
       ELSE LET user == users[CHOOSE i \in LoginRows(username, password) : TRUE]
            IN /\ nextToken < MaxTokens
               /\ sessions' = sessions \cup
                      {TokenRow(user.id, "login", user.username, user.email)}
               /\ nextToken' = nextToken + 1
               /\ resp' = [op |-> "login", status |-> 200,
                           token |-> nextToken + 1,
                           username |-> user.username, email |-> user.email]
    /\ UNCHANGED <<users, documents, conversations, user_sessions, now,
                   nextObj, inflight>>

\* logout up to the return of its dependency verify_token
Logout(token) ==
    /\ IF verify_token(token) = None
       THEN /\ resp' = Unauthorized("logout", token)
            /\ UNCHANGED inflight
       ELSE /\ Cardinality({k \in 1..Len(inflight) :
                                inflight[k].op = "logout"}) < MaxLogouts
            /\ inflight' = Append(inflight,
                   [op |-> "logout", token |-> token[1]])
            /\ resp' = [op |-> "logout_validated", status |-> 0,
                        token |-> token]
    /\ UNCHANGED <<users, sessions, documents, conversations, user_sessions,
                   now, nextToken, nextObj>>

\* faulty variant: every token of the token's user is deleted
logout_resume_user(k) ==
    /\ k \in 1..Len(inflight)
    /\ inflight[k].op = "logout"
    /\ sessions' =
          {s \in sessions :
              \A r \in sessions :
                  r.token = inflight[k].token => s.user_id # r.user_id}
    /\ inflight' = [j \in 1..(Len(inflight) - 1) |->
                       IF j < k THEN inflight[j] ELSE inflight[j + 1]]
    /\ resp' = [op |-> "logout", status |-> 200,
                token |-> Some(inflight[k].token)]
    /\ UNCHANGED <<users, documents, conversations, user_sessions, now,
                   nextToken, nextObj>>

\* inflight without its k-th entry
Without(k) ==
    [j \in 1..(Len(inflight) - 1) |->
        IF j < k THEN inflight[j] ELSE inflight[j + 1]]

\* the body of logout, lines 557-564: DELETE FROM sessions WHERE token = ?
logout_resume(k) ==
    /\ k \in 1..Len(inflight)
    /\ inflight[k].op = "logout"
    /\ sessions' = {s \in sessions : s.token # inflight[k].token}
    /\ inflight' = Without(k)
    /\ resp' = [op |-> "logout", status |-> 200,
                token |-> Some(inflight[k].token)]
    /\ UNCHANGED <<users, documents, conversations, user_sessions, now,
                   nextToken, nextObj>>

\* get_current_user (GET /auth/me)
WhoAmI(token) ==
    /\ IF verify_token(token) = None
       THEN resp' = Unauthorized("me", token)
       ELSE resp' = [op |-> "me", status |-> 200, token |-> token,
                     user |-> verify_token(token)[1]]
    /\ UNCHANGED <<users, sessions, documents, conversations, user_sessions,
                   now, nextToken,
                   nextObj, inflight>>

\* the clock read by datetime.now() advances
Tick ==
    /\ now < MaxTime
    /\ now' = now + 1
    /\ resp' = [op |-> "tick", status |-> 0]
    /\ UNCHANGED <<users, sessions, documents, conversations, user_sessions,
                   nextToken, nextObj, inflight>>

\* a token header: absent, a token issued so far, or one never issued
TokenHeaders == {None} \cup {Some(t) : t \in 1..(nextToken + 1)}

\* ---------------------------------------------- the credential store alone
InitAuth ==
    /\ users = <<>>
    /\ sessions = {}
    /\ documents = <<>>
    /\ conversations = <<>>
    /\ user_sessions = <<>>
    /\ now = 0
    /\ nextToken = 0
    /\ nextObj = 0
    /\ inflight = <<>>
    /\ resp = [op |-> "startup", status |-> 0]

\* every registration gives the first password; a login may give either
NextAuth ==
    \/ \E n \in Usernames, e \in Emails : Register(n, e, "pw1")
    \/ \E n \in Usernames, p \in Passwords : Login(n, p)
    \/ \E t \in TokenHeaders : WhoAmI(t)
    \/ Tick

SpecAuth == InitAuth /\ [][NextAuth]_vars

\* ------------------------------------------------- the life of the tokens
\* alice registered on day 0 (token 1) and bob on day 1 (token 2); it is
\* day 6, the last day on which alice's token is valid.
InitTokens ==
    /\ users = <<[id |-> 1, username |-> "alice", email |-> "a@x.com",
                  password_hash |-> hash_password("pw1")],
                 [id |-> 2, username |-> "bob", email |-> "b@x.com",
                  password_hash |-> hash_password("pw2")]>>
    /\ sessions =
         {[user_id |-> 1, token |-> 1, created_at |-> 0,
           expires_at |-> TokenDays, by |-> "register",
           name |-> "alice", mail |-> "a@x.com"],
          [user_id |-> 2, token |-> 2, created_at |-> 1,
           expires_at |-> 1 + TokenDays, by |-> "register",
           name |-> "bob", mail |-> "b@x.com"]}
    /\ now = 6
    /\ nextToken = 2
    /\ documents = <<>>
    /\ conversations = <<>>
    /\ user_sessions = <<>>
    /\ nextObj = 0
    /\ inflight = <<>>
    /\ resp = [op |-> "startup", status |-> 0]

NextTokens ==
    \/ \E n \in Usernames, p \in Passwords : Login(n, p)
    \/ \E t \in TokenHeaders : Logout(t)
    \/ \E k \in 1..MaxLogouts : logout_resume(k)
    \/ \E t \in TokenHeaders : WhoAmI(t)
    \/ Tick

SpecTokens == InitTokens /\ [][NextTokens]_vars

\* ================================================================ upload
\* the sources a request can name: a file whose text makes one chunk and
\* a page whose text makes two
Filenames == {"a.txt"}
Titles == {"Page"}
Urls == {"http://x"}

\* lengths of the extracted text: empty, one short of the minimum, the
\* minimum
TextLens == {0, MinContent - 1, MinContent}

\* what RecursiveCharacterTextSplitter returns: the chunk texts, in order
SplitTexts(kind) == IF kind = "file" THEN <<"x">> ELSE <<"y", "x">>

\* how far an ingestion gets: Chroma.from_documents raises, the INSERT into
\* documents raises, or nothing raises
Outcomes == {"index_fail", "insert_fail", "ok"}

\* Document(page_content=text, metadata={"source": ..., "type": ...});
\* obj is the identity of the object, len the length of its text
Doc(obj, name, kind, textlen) ==
    [obj |-> obj, source |-> name, type |-> kind, len |-> textlen]

\* text_splitter.split_documents([doc]): each chunk carries doc's metadata
SplitDocs(doc, texts) ==
    [j \in 1..Len(texts) |->
        [page_content |-> texts[j], source |-> doc.source, type |-> doc.type,
         obj |-> doc.obj, idx |-> j]]

\* lines 652-654
Staged(sess, doc) ==
    [sess EXCEPT !.documents = <<doc>>,
                 !.source_name = Some(doc.source),
                 !.source_type = Some(doc.type),
                 !.hist = "upload"]

\* faulty variant: the chunks are added to the collection the session already has
IndexedShared(sess, splits, obj) ==
    LET old == IF sess.vectorstore = None THEN <<>>
               ELSE sess.vectorstore[1].chunks
        vs == [obj |-> obj, chunks |-> old \o splits]
    IN [sess EXCEPT !.vectorstore = Some(vs),
                    !.retriever = Some([store |-> vs, k |-> RetrieverK])]

\* lines 667-674: a fresh vectorstore over the chunks and its retriever
Indexed(sess, splits, obj) ==
    LET vs == [obj |-> obj, chunks |-> splits]
    IN [sess EXCEPT !.vectorstore = Some(vs),
                    !.retriever = Some([store |-> vs, k |-> RetrieverK])]

\* cursor.lastrowid of an INSERT into documents (AUTOINCREMENT, no row
\* deleted; an INSERT that is not committed leaves the sequence as it was)
NewDocumentId == Len(documents) + 1

\* the row of lines 679-682 (file_size and word_count are left out).  obj
\* is a history field: the Document the row was written for.
DocumentRow(uid, doc, splits) ==
    [id |-> NewDocumentId, user_id |-> uid, filename |-> doc.source,
     chunks |-> Len(splits), source_type |-> doc.type, obj |-> doc.obj]

UploadResp(token, uid, status, detail, text) ==
    [op |-> "upload", token |-> token, status |-> status, detail |-> detail,
     user |-> uid, text |-> text]

\* lines 647-698: the ingestion of a text that passed the length check.
\* texts is what the splitter returns, outcome how far the ingestion gets.
Ingest(token, uid, name, kind, textlen, texts, outcome) ==
    LET sess == SessionsWith(uid)[uid]
        doc == Doc(nextObj + 1, name, kind, textlen)
        splits == SplitDocs(doc, texts)
        s1 == Staged(sess, doc)
        s2 == Indexed(s1, splits, doc.obj)
        s3 == [s2 EXCEPT !.document_id = Some(NewDocumentId),
                         !.cleared = FALSE]
    IN      /\ nextObj' = nextObj + 1
            /\ CASE outcome = "index_fail" ->
                      /\ user_sessions' = SetSession(uid, s1)
                      /\ UNCHANGED documents
                      /\ resp' = UploadResp(token, uid, 500, "index", Some(textlen))
                 [] outcome = "insert_fail" ->
                      /\ user_sessions' =
                            SetSession(uid, [s2 EXCEPT !.hist = "unsaved"])
                      /\ UNCHANGED documents
                      /\ resp' = UploadResp(token, uid, 500, "insert", Some(textlen))
                 [] outcome = "ok" ->
                      /\ user_sessions' = SetSession(uid, s3)
                      /\ documents' =
                            Append(documents, DocumentRow(uid, doc, splits))
                      /\ resp' = UploadResp(token, uid, 200, "success", Some(textlen))
                            @@ [source |-> name, source_type |-> kind,
                                content_length |-> textlen,
                                chunks |-> Len(splits)]

\* faulty variant: only an empty text is refused
TooShortEmptyOnly(textlen) == textlen = 0

\* line 639: not text or len(text) < 50
TooShort(textlen) == textlen = 0 \/ textlen < MinContent

\* lines 638-704, run once the text is extracted
UploadCommit(token, uid, name, kind, textlen) ==
    IF TooShort(textlen)
    THEN /\ resp' = UploadResp(token, uid, 400, "ContentTooShort", Some(textlen))
         /\ user_sessions' = SessionsWith(uid)
         /\ UNCHANGED <<documents, nextObj>>
    ELSE \E outcome \in Outcomes :
            Ingest(token, uid, name, kind, textlen, SplitTexts(kind),
                   outcome)

\* the request's file part and url field
Files == {None} \cup {Some([filename |-> f]) : f \in Filenames \cup {""}}
UrlFields == {None} \cup {Some(u) : u \in Urls}

\* what extract_text_from_url does: None (it raises) or
\* Some(<<length of the text, title>>)
Fetched == {None} \cup {Some(<<n, t>>) : n \in TextLens, t \in Titles}

\* what extract_text_from_file does: None (it raises) or
\* Some(length of the text)
Extracted == {None} \cup {Some(n) : n \in TextLens}

\* what the request supplies: a file part counts when it has a filename
\* (line 614), a url field when it is given
Given(file, url) ==
    LET f == file # None /\ file[1].filename # ""
        u == url # None
    IN IF f /\ u THEN "both" ELSE IF f THEN "file"
       ELSE IF u THEN "url" ELSE "neither"

\* upload_document from its start to its first suspension or its end
upload_document(token) ==
    /\ UNCHANGED <<users, sessions, conversations, now, nextToken>>
    /\ IF verify_token(token) = None
       THEN /\ resp' = Unauthorized("upload", token)
            /\ UNCHANGED <<user_sessions, documents, nextObj, inflight>>
       ELSE LET uid == verify_token(token)[1].user_id IN
            \E file \in Files, url \in UrlFields :
            IF file # None /\ file[1].filename # ""
            THEN \* `content = await file.read()` suspends the handler
                 /\ Cardinality({k \in 1..Len(inflight) :
                                     inflight[k].op = "upload"}) < MaxInflight
                 /\ inflight' = Append(inflight,
                        [op |-> "upload", token |-> token, user |-> uid,
                         filename |-> file[1].filename])
                 /\ user_sessions' = SessionsWith(uid)
                 /\ resp' = [op |-> "upload_read", token |-> token,
                             status |-> 0, user |-> uid,
                             given |-> Given(file, url)]
                 /\ UNCHANGED <<documents, nextObj>>
            ELSE IF url # None
            THEN /\ UNCHANGED inflight
                 /\ \E fetched \in Fetched :
                    IF fetched = None
                    THEN /\ resp' = UploadResp(token, uid, 400, "FetchError", None)
                         /\ user_sessions' = SessionsWith(uid)
                         /\ UNCHANGED <<documents, nextObj>>
                    ELSE UploadCommit(token, uid, fetched[1][2], "url",
                                      fetched[1][1])
            ELSE /\ resp' = UploadResp(token, uid, 400, "BadRequest", None)
                            @@ [given |-> Given(file, url)]
                 /\ user_sessions' = SessionsWith(uid)
                 /\ UNCHANGED <<documents, nextObj, inflight>>

\* len(content) of an uploaded file
ContentLens == {0, 1}

\* upload_document from the return of `await file.read()` to its end
upload_resume(k) ==
    /\ k \in 1..Len(inflight)
    /\ inflight[k].op = "upload"
    /\ UNCHANGED <<users, sessions, conversations, now, nextToken>>
    /\ inflight' = Without(k)
    /\ LET uid == inflight[k].user
           token == inflight[k].token IN
       \E content_len \in ContentLens :
       IF content_len = 0
       THEN /\ resp' = UploadResp(token, uid, 400, "EmptyFile", None)
            /\ UNCHANGED <<user_sessions, documents, nextObj>>
       ELSE \E extracted \in Extracted :
            IF extracted = None
            THEN /\ resp' = UploadResp(token, uid, 400, "UnsupportedFormat", None)
                 /\ UNCHANGED <<user_sessions, documents, nextObj>>
            ELSE UploadCommit(token, uid, inflight[k].filename, "file",
                              extracted[1])

\* =========================================================== status, clear
\* vectorstore._collection.count()
CollectionCount(vs) == Len(vs.chunks)

\* the body of get_status
StatusOf(sess) ==
    IF sess.vectorstore = None
    THEN [status |-> "no_document", document_count |-> 0, chunk_count |-> 0,
          source_name |-> None, source_type |-> None]
    ELSE [status |-> "ready", document_count |-> Len(sess.documents),
          chunk_count |-> CollectionCount(sess.vectorstore[1]),
          source_name |-> sess.source_name,
          source_type |-> sess.source_type]

get_status(token) ==
    /\ UNCHANGED <<users, sessions, documents, conversations, now, nextToken,
                   nextObj, inflight>>
    /\ IF verify_token(token) = None
       THEN /\ resp' = Unauthorized("status", token)
            /\ UNCHANGED user_sessions
       ELSE LET uid == verify_token(token)[1].user_id IN
            /\ user_sessions' = SessionsWith(uid)
            /\ resp' = [op |-> "status", token |-> token, status |-> 200,
                        user |-> uid,
                        body |-> StatusOf(SessionsWith(uid)[uid])]

clear_system(token) ==
    /\ UNCHANGED <<users, sessions, documents, conversations, now, nextToken,
                   nextObj, inflight>>
    /\ IF verify_token(token) = None
       THEN /\ resp' = Unauthorized("clear", token)
            /\ UNCHANGED user_sessions
       ELSE LET uid == verify_token(token)[1].user_id IN
            /\ user_sessions' = SetSession(uid, Cleared(SessionsWith(uid)[uid]))
            /\ resp' = [op |-> "clear", token |-> token, status |-> 200,
                        user |-> uid]

\* ============================================================ RAG chains
\* The collaborators are the environment env of one ask_question call:
\*   env.gen[1]  whether the chain's first generation (the queries of
\*               Multi-Query, the passage of HyDE) returns; FALSE: it raises
\*   env.gen[2]  whether the generation of the answer returns
\*   env.nq      how many non-blank lines the generated queries are
\*   env.ctx[i]  the chain's i-th retrieval: None (it raises) or Some(ix),
\*               the positions in the collection of the chunks found
\*   env.src     the retrieval of line 736, likewise
\*   env.save    whether the INSERT into conversations and its commit return
\* The text a generation returns stands for itself: the prompt it answers.
MaxQueries == 2

Questions == {"q", " q "}

\* request.question.strip()
Strip(q) == IF q = " q " THEN "q" ELSE q

RagTypes == {"basic", "multi_query", "hyde", "other"}

\* retriever.get_relevant_documents(query): fresh Document objects (call is
\* the call that made them), at most k of them
get_relevant_documents(retriever, outcome, call) ==
    IF retriever = None \/ outcome = None THEN None
    ELSE LET chunks == retriever[1].store.chunks
             ix == SelectSeq(outcome[1], LAMBDA i : i \in 1..Len(chunks))
             n == IF Len(ix) < retriever[1].k THEN Len(ix) ELSE retriever[1].k
         IN Some([j \in 1..n |->
                    [page_content |-> chunks[ix[j]].page_content,
                     source |-> chunks[ix[j]].source,
                     type |-> chunks[ix[j]].type,
                     obj |-> chunks[ix[j]].obj,
                     idx |-> chunks[ix[j]].idx,
                     call |-> call]])

RetrieveCall(query) == [svc |-> "retrieve", query |-> query]

GenerateCall(tpl, context, question) ==
    [svc |-> "generate", tpl |-> tpl, context |-> context,
     question |-> question]

\* "\n\n".join(doc.page_content for doc in docs): the texts, in order
format_docs(docs) == [i \in 1..Len(docs) |-> docs[i].page_content]

\* the text the model returns for a prompt
Generated(tpl, context, question) ==
    [tpl |-> tpl, context |-> context, question |-> question]

Raised(calls) == [ok |-> FALSE, answer |-> None, calls |-> calls,
                  context |-> <<>>]

Answered(tpl, docs, question, calls) ==
    [ok |-> TRUE,
     answer |-> Some(Generated(tpl, format_docs(docs), question)),
     calls |-> calls, context |-> docs]

\* BasicRAG.build_chain(...).invoke(question)
BasicRAG(retriever, question, env) ==
    LET docs == get_relevant_documents(retriever, env.ctx[1], 1)
        c1 == <<RetrieveCall(question)>>
    IN IF docs = None THEN Raised(c1)
       ELSE LET c2 == Append(c1, GenerateCall("basic",
                                    format_docs(docs[1]), question))
            IN IF ~env.gen[2] THEN Raised(c2)
               ELSE Answered("basic", docs[1], question, c2)

\* generate_queries: the lines of the model's output that are not blank
GeneratedQueries(question, n) == [i \in 1..n |-> <<"query", i, question>>]

\* retrieve_all: a query whose retrieval raises is skipped
RECURSIVE retrieve_all(_, _, _, _)
retrieve_all(retriever, queries, env, i) ==
    IF i > Len(queries) THEN <<>>
    ELSE LET docs == get_relevant_documents(retriever, env.ctx[i], i)
             rest == retrieve_all(retriever, queries, env, i + 1)
         IN IF docs = None THEN rest ELSE <<docs[1]>> \o rest

RECURSIVE Flatten(_)
Flatten(doc_lists) ==
    IF doc_lists = <<>> THEN <<>>
    ELSE Head(doc_lists) \o Flatten(Tail(doc_lists))

\* unique[doc.page_content] = doc, for each doc in turn: a dict keeps a key
\* where it was first inserted and the value last assigned to it
RECURSIVE DictAssignAll(_, _)
DictAssignAll(unique, docs) ==
    IF docs = <<>> THEN unique
    ELSE LET d == Head(docs)
             at == {i \in 1..Len(unique) :
                       unique[i].page_content = d.page_content}
         IN DictAssignAll(
                IF at = {} THEN Append(unique, d)
                ELSE [unique EXCEPT ![CHOOSE i \in at : TRUE] = d],
                Tail(docs))

\* faulty variant: the lists are concatenated, a text already present or not
get_all_docs(doc_lists) == Flatten(doc_lists)

\* list(unique.values())
get_unique_docs(doc_lists) == DictAssignAll(<<>>, Flatten(doc_lists))

\* faulty variant: a query whose retrieval raises aborts the chain
MultiQueryRAGAbort(retriever, question, env) ==
    LET c1 == <<GenerateCall("multi_query_queries", <<>>, question)>>
    IN IF ~env.gen[1] THEN Raised(c1)
       ELSE LET queries == GeneratedQueries(question, env.nq)
                doc_lists == retrieve_all(retriever, queries, env, 1)
                unique_docs == get_unique_docs(doc_lists)
                c2 == c1 \o [i \in 1..Len(queries) |-> RetrieveCall(queries[i])]
                c3 == Append(c2, GenerateCall("multi_query",
                                     format_docs(unique_docs), question))
            IN IF \E i \in 1..Len(queries) : env.ctx[i] = None
               THEN Raised(c2)
               ELSE IF ~env.gen[2] THEN Raised(c3)
               ELSE Answered("multi_query", unique_docs, question, c3)
                        @@ [doc_lists |-> doc_lists]

\* MultiQueryRAG.build_chain(...)(question)
MultiQueryRAG(retriever, question, env) ==
    LET c1 == <<GenerateCall("multi_query_queries", <<>>, question)>>
    IN IF ~env.gen[1] THEN Raised(c1)
       ELSE LET queries == GeneratedQueries(question, env.nq)
                doc_lists == retrieve_all(retriever, queries, env, 1)
                unique_docs == get_unique_docs(doc_lists)
                c2 == c1 \o [i \in 1..Len(queries) |-> RetrieveCall(queries[i])]
                c3 == Append(c2, GenerateCall("multi_query",
                                     format_docs(unique_docs), question))
            IN IF ~env.gen[2] THEN Raised(c3)
               ELSE Answered("multi_query", unique_docs, question, c3)
                        @@ [doc_lists |-> doc_lists]

\* HyDERAG.build_chain(...)(question)
HyDERAG(retriever, question, env) ==
    LET c1 == <<GenerateCall("hyde_passage", <<>>, question)>>
        hypothetical == Generated("hyde_passage", <<>>, question)
        c2 == Append(c1, RetrieveCall(hypothetical))
        docs == get_relevant_documents(retriever, env.ctx[1], 1)
    IN IF ~env.gen[1] THEN Raised(c1)
       ELSE IF docs = None THEN Raised(c2)
       ELSE LET c3 == Append(c2, GenerateCall("hyde",
                                    format_docs(docs[1]), question))
            IN IF ~env.gen[2] THEN Raised(c3)
               ELSE Answered("hyde", docs[1], question, c3)

\* faulty variant: a tag that is none of the three is an error
RunChainStrict(rag_type, retriever, question, env) ==
    IF rag_type = "multi_query" THEN MultiQueryRAG(retriever, question, env)
    ELSE IF rag_type = "hyde" THEN HyDERAG(retriever, question, env)
    ELSE IF rag_type = "basic" THEN BasicRAG(retriever, question, env)
    ELSE Raised(<<>>)

\* lines 726-734: the dispatch on rag_type
RunChain(rag_type, retriever, question, env) ==
    IF rag_type = "multi_query" THEN MultiQueryRAG(retriever, question, env)
    ELSE IF rag_type = "hyde" THEN HyDERAG(retriever, question, env)
    ELSE BasicRAG(retriever, question, env)

\* doc.page_content[:200] + "..."
Preview(text) == <<text, "...">>

\* [... for doc in relevant_docs[:3]]
Sources(relevant_docs) ==
    [i \in 1..(IF Len(relevant_docs) < SourceTop THEN Len(relevant_docs)
               ELSE SourceTop) |-> Preview(relevant_docs[i].page_content)]

\* faulty variant: the check of line 714 is missing
NoRetrieverUnchecked(sess) == FALSE

\* line 714
NoRetriever(sess) == sess.retriever = None

\* lines 715-718: the request is refused before any collaborator is called
AskRefused(request_question, rag_type) ==
    [status |-> 400, detail |-> "BadRequest", rag_type |-> rag_type,
     question |-> Strip(request_question), calls |-> <<>>, answer |-> None,
     sources |-> <<>>, chain |-> None]

\* lines 720-758: what the call answers, with the collaborators behaving as
\* env says.  status 200 stands for the row written and the answer returned.
AskOutcome(sess, request_question, rag_type, env) ==
    LET question == Strip(request_question)
        chain == RunChain(rag_type, sess.retriever, question, env)
        relevant_docs == get_relevant_documents(sess.retriever, env.src, 0)
        calls == Append(chain.calls, RetrieveCall(question))
        failed(detail, cs) ==
            [status |-> 500, detail |-> detail, rag_type |-> rag_type,
             question |-> question, calls |-> cs, answer |-> None,
             sources |-> <<>>, chain |-> Some(chain)]
    IN IF ~chain.ok THEN failed("chain", chain.calls)
       ELSE IF relevant_docs = None THEN failed("sources", calls)
       ELSE IF sess.document_id = None
       THEN \* conversations.document_id is NOT NULL: the INSERT raises
            failed("document_id", calls)
       ELSE IF ~env.save
       THEN failed("save", calls)
       ELSE [status |-> 200, detail |-> "answer", rag_type |-> rag_type,
             question |-> question, calls |-> calls, answer |-> chain.answer,
             sources |-> Sources(relevant_docs[1]), chain |-> Some(chain)]

AskResult(sess, request_question, rag_type, env) ==
    IF NoRetriever(sess) THEN AskRefused(request_question, rag_type)
    ELSE AskOutcome(sess, request_question, rag_type, env)

\* the row of lines 742-745
ConversationRow(uid, document_id, question, answer, rag_type) ==
    [id |-> Len(conversations) + 1, user_id |-> uid,
     document_id |-> document_id, question |-> question, answer |-> answer,
     rag_type |-> rag_type, created_at |-> now]

\* faulty variant: the row is written before the excerpts are retrieved
AskEffectsEarly(token, uid, sess, out) ==
    /\ resp' = [op |-> "ask", token |-> token, user |-> uid] @@ out
    /\ IF out.status = 200
       THEN /\ conversations' = Append(conversations,
                  ConversationRow(uid, sess.document_id[1], out.question,
                                  out.answer[1], out.rag_type))
       ELSE IF out.detail = "sources" /\ sess.document_id # None
       THEN /\ conversations' = Append(conversations,
                  ConversationRow(uid, sess.document_id[1], out.question,
                                  out.chain[1].answer[1], out.rag_type))
       ELSE UNCHANGED conversations

\* the effects of a call that answers out
AskEffects(token, uid, sess, out) ==
    /\ resp' = [op |-> "ask", token |-> token, user |-> uid] @@ out
    /\ IF out.status = 200
       THEN /\ conversations' = Append(conversations,
                  ConversationRow(uid, sess.document_id[1], out.question,
                                  out.answer[1], out.rag_type))
       ELSE UNCHANGED conversations

\* questions and rag_types: what the request may carry; envs: the
\* collaborators' behaviours the call may meet
ask_question(token, questions, rag_types, envs) ==
    /\ UNCHANGED <<users, sessions, documents, now, nextToken, nextObj,
                   inflight>>
    /\ IF verify_token(token) = None
       THEN /\ resp' = Unauthorized("ask", token)
            /\ UNCHANGED <<user_sessions, conversations>>
       ELSE LET uid == verify_token(token)[1].user_id
                sess == SessionsWith(uid)[uid]
            IN \E request_question \in questions, rag_type \in rag_types :
               /\ user_sessions' = SessionsWith(uid)
               /\ IF NoRetriever(sess)
                  THEN AskEffects(token, uid, sess,
                                  AskRefused(request_question, rag_type))
                  ELSE \E env \in envs :
                          AskEffects(token, uid, sess,
                              AskOutcome(sess, request_question, rag_type,
                                         env))

\* =============================================================== history
\* faulty variant: the rows of every user are selected
HistoryRowsAll(uid) ==
    {i \in 1..Len(conversations) :
        \E j \in 1..Len(documents) :
            documents[j].id = conversations[i].document_id}

\* FROM conversations c JOIN documents d ON c.document_id = d.id
\* WHERE c.user_id = ?: the positions of the rows selected
HistoryRows(uid) ==
    {i \in 1..Len(conversations) :
        /\ conversations[i].user_id = uid
        /\ \E j \in 1..Len(documents) :
              documents[j].id = conversations[i].document_id}

\* ORDER BY c.created_at DESC: the orders the rows can come in.  Rows with
\* equal created_at come in an order SQLite does not define.
Orderings(rows) ==
    {order \in [1..Cardinality(rows) -> rows] :
        /\ \A k, l \in DOMAIN order : k # l => order[k] # order[l]
        /\ \A k, l \in DOMAIN order :
              k < l => conversations[order[k]].created_at
                         >= conversations[order[l]].created_at}

\* LIMIT n
Limit(order, n) ==
    [k \in 1..(IF Len(order) < n THEN Len(order) ELSE n) |-> order[k]]

\* the columns selected, lines 777-787
HistoryItem(i) ==
    LET c == conversations[i]
        d == documents[CHOOSE j \in 1..Len(documents) :
                          documents[j].id = c.document_id]
    IN [id |-> c.id, question |-> c.question, answer |-> c.answer,
        rag_type |-> c.rag_type, created_at |-> c.created_at,
        document_name |-> d.filename, source_type |-> d.source_type]

get_history(token) ==
    /\ UNCHANGED <<users, sessions, documents, conversations, user_sessions,
                   now, nextToken, nextObj, inflight>>
    /\ IF verify_token(token) = None
       THEN resp' = Unauthorized("history", token)
       ELSE LET uid == verify_token(token)[1].user_id IN
            \E order \in Orderings(HistoryRows(uid)) :
               resp' = [op |-> "history", status |-> 200, token |-> token,
                        user |-> uid,
                        history |-> [k \in DOMAIN Limit(order, HistoryLimit)
                                       |-> HistoryItem(order[k])]]

\* ========================================================= specifications
Envs(gens, nqs, rets, saves) ==
    [gen : gens, nq : nqs, ctx : [1..MaxQueries -> rets], src : rets,
     save : saves]

\* ------------------------------------------------- the corpus life cycle
\* alice registered on day 0 (token 1, expired since day 7), bob registered
\* and alice logged in on day 2 (tokens 2 and 3); it is day 8.
InitRag ==
    /\ users = <<[id |-> 1, username |-> "alice", email |-> "a@x.com",
                  password_hash |-> hash_password("pw1")],
                 [id |-> 2, username |-> "bob", email |-> "b@x.com",
                  password_hash |-> hash_password("pw2")]>>
    /\ sessions =
         {[user_id |-> 1, token |-> 1, created_at |-> 0,
           expires_at |-> TokenDays, by |-> "register",
           name |-> "alice", mail |-> "a@x.com"],
          [user_id |-> 2, token |-> 2, created_at |-> 2,
           expires_at |-> 2 + TokenDays, by |-> "register",
           name |-> "bob", mail |-> "b@x.com"],
          [user_id |-> 1, token |-> 3, created_at |-> 2,
           expires_at |-> 2 + TokenDays, by |-> "login",
           name |-> "alice", mail |-> "a@x.com"]}
    /\ now = 8
    /\ nextToken = 3
    /\ documents = <<>>
    /\ conversations = <<>>
    /\ user_sessions = <<>>
    /\ nextObj = 0
    /\ inflight = <<>>
    /\ resp = [op |-> "startup", status |-> 0]

\* the collaborators answer; the write to conversations may raise
RagEnvs == Envs({<<TRUE, TRUE>>}, {1}, {Some(<<1>>)}, BOOLEAN)

\* no header, alice's expired token, alice's valid token
AliceHeaders == {None, Some(1), Some(3)}

Next ==
    \/ \E t \in AliceHeaders : upload_document(t) /\ nextObj' <= MaxObj
    \/ \E k \in 1..MaxInflight : upload_resume(k) /\ nextObj' <= MaxObj
    \/ \E t \in AliceHeaders : get_status(t)
    \/ \E t \in AliceHeaders : clear_system(t)
    \/ \E t \in AliceHeaders :
          \* the strategies that retrieve once; multi_query, which retrieves
          \* once per generated query, is exercised under SpecAsk
          /\ ask_question(t, Questions, RagTypes \ {"multi_query"}, RagEnvs)
          /\ Len(conversations') <= MaxConv

Spec == InitRag /\ [][Next]_vars

\* ------------------------------------------------------ two users' asks
\* alice and bob each hold the corpus of one upload (alice of the file
\* a.txt, document 1; bob of a page, document 2); alice's first token is
\* expired, bob's token and alice's second token were issued today.
CorpusOf(obj, name, kind, document_id) ==
    LET doc == Doc(obj, name, kind, MinContent)
        s2 == Indexed(Staged(NewSession, doc),
                      SplitDocs(doc, SplitTexts(kind)), doc.obj)
    IN [s2 EXCEPT !.document_id = Some(document_id)]

InitUsers ==
    /\ users = <<[id |-> 1, username |-> "alice", email |-> "a@x.com",
                  password_hash |-> hash_password("pw1")],
                 [id |-> 2, username |-> "bob", email |-> "b@x.com",
                  password_hash |-> hash_password("pw2")]>>
    /\ sessions =
         {[user_id |-> 1, token |-> 1, created_at |-> 0,
           expires_at |-> TokenDays, by |-> "register",
           name |-> "alice", mail |-> "a@x.com"],
          [user_id |-> 2, token |-> 2, created_at |-> 8,
           expires_at |-> 8 + TokenDays, by |-> "register",
           name |-> "bob", mail |-> "b@x.com"],
          [user_id |-> 1, token |-> 3, created_at |-> 8,
           expires_at |-> 8 + TokenDays, by |-> "login",
           name |-> "alice", mail |-> "a@x.com"]}
    /\ now = 8
    /\ nextToken = 3
    /\ documents = <<[id |-> 1, user_id |-> 1, filename |-> "a.txt",
                      chunks |-> 1, source_type |-> "file", obj |-> 1],
                     [id |-> 2, user_id |-> 2, filename |-> "Page",
                      chunks |-> 2, source_type |-> "url", obj |-> 2]>>
    /\ conversations = <<>>
    /\ user_sessions = <<CorpusOf(1, "a.txt", "file", 1),
                         CorpusOf(2, "Page", "url", 2)>>
    /\ nextObj = 2
    /\ inflight = <<>>
    /\ resp = [op |-> "startup", status |-> 0]

\* no header, alice's expired token, bob's token, alice's valid token, a
\* token never issued
UserHeaders == {None, Some(1), Some(2), Some(3), Some(4)}

NextHistory ==
    \/ \E t \in UserHeaders :
          /\ ask_question(t, {"q"}, {"basic", "hyde"}, RagEnvs)
          /\ Len(conversations') <= MaxRows
    \/ \E t \in UserHeaders : get_history(t)
    \/ Tick

SpecHistory == InitUsers /\ [][NextHistory]_vars

\* ----------------------------------------------------- two users at once
\* nextObj counts the Documents of the two initial corpora; MaxObj - 1
\* more are constructed
MaxObjUsers == MaxObj + 1

\* alice's expired token, bob's token, alice's valid token
ValidHeaders == {Some(1), Some(2), Some(3)}

NextUsers ==
    \/ \E t \in ValidHeaders : upload_document(t) /\ nextObj' <= MaxObjUsers
    \/ \E k \in 1..(MaxInflight + MaxLogouts) :
          upload_resume(k) /\ nextObj' <= MaxObjUsers
    \/ \E t \in ValidHeaders : get_status(t)
    \/ \E t \in ValidHeaders : clear_system(t)
    \/ \E t \in ValidHeaders :
          /\ ask_question(t, {"q"}, {"basic"}, RagEnvs)
          /\ Len(conversations') <= MaxConv
    \/ \E t \in ValidHeaders : Logout(t) /\ Len(inflight') <= MaxInflight
    \/ \E k \in 1..(MaxInflight + MaxLogouts) : logout_resume(k)

SpecUsers == InitUsers /\ [][NextUsers]_vars

\* ------------------------------------------------ the conversation log
\* what the collaborators do during one Ask: all of them answer, or one
\* generation call, one retrieval or the write fails
Failures(env) ==
    Cardinality({k \in 1..2 : ~env.gen[k]})
      + Cardinality({i \in 1..MaxQueries : env.ctx[i] = None})
      + (IF env.src = None THEN 1 ELSE 0)
      + (IF env.save THEN 0 ELSE 1)

LogEnvs ==
    {env \in Envs({<<a, b>> : a \in BOOLEAN, b \in BOOLEAN}, {MaxQueries},
                  {None, Some(<<1>>)}, BOOLEAN) : Failures(env) <= 1}

NextLog ==
    \/ \E t \in ValidHeaders :
          /\ ask_question(t, {"q"}, RagTypes, LogEnvs)
          /\ Len(conversations') <= MaxRows
    \/ \E t \in ValidHeaders : clear_system(t)
    \/ \E t \in ValidHeaders : get_history(t)

SpecLog == InitUsers /\ [][NextLog]_vars

\* ------------------------------------------------ the protected handlers
\* no header, alice's expired token, alice's valid token, a token never
\* issued
GuardHeaders == {None, Some(1), Some(3), Some(4)}

NextGuard ==
    \/ \E t \in GuardHeaders : WhoAmI(t)
    \/ \E t \in GuardHeaders : get_status(t)
    \/ \E t \in GuardHeaders : upload_document(t) /\ nextObj' <= MaxObjUsers
    \/ \E k \in 1..(MaxInflight + MaxLogouts) :
          upload_resume(k) /\ nextObj' <= MaxObjUsers
    \/ \E t \in GuardHeaders :
          /\ ask_question(t, {"q"}, {"basic"}, RagEnvs)
          /\ Len(conversations') <= MaxConv
    \/ \E t \in GuardHeaders : get_history(t)
    \/ \E t \in GuardHeaders : clear_system(t)
    \/ \E t \in GuardHeaders : Logout(t) /\ Len(inflight') <= MaxInflight
    \/ \E k \in 1..(MaxInflight + MaxLogouts) : logout_resume(k)

SpecGuard == InitUsers /\ [][NextGuard]_vars

\* ------------------------------------------------ the orchestrator alone
\* alice holds the corpus of an upload whose text made the chunks x, y, x
\* (document 1); one request is pending, with the collaborators' behaviour
\* during it already drawn.
AskCorpus ==
    LET doc == Doc(1, "a.txt", "file", MinContent)
        s2 == Indexed(Staged(NewSession, doc),
                      SplitDocs(doc, <<"x", "y", "x">>), doc.obj)
    IN [s2 EXCEPT !.document_id = Some(1)]

IndexLists == {<<>>, <<1>>, <<2, 3>>, <<3, 1>>}

Retrievals == {None} \cup {Some(ix) : ix \in IndexLists}

AskEnvs ==
    Envs({<<a, b>> : a \in BOOLEAN, b \in BOOLEAN}, 0..MaxQueries,
         Retrievals, BOOLEAN)

InitAsk ==
    /\ users = <<[id |-> 1, username |-> "alice", email |-> "a@x.com",
                  password_hash |-> hash_password("pw1")]>>
    /\ sessions =
         {[user_id |-> 1, token |-> 1, created_at |-> 8,
           expires_at |-> 8 + TokenDays, by |-> "register",
           name |-> "alice", mail |-> "a@x.com"]}
    /\ now = 8
    /\ nextToken = 1
    /\ documents = <<[id |-> 1, user_id |-> 1, filename |-> "a.txt",
                      chunks |-> 3, source_type |-> "file", obj |-> 1]>>
    /\ conversations = <<>>
    /\ user_sessions = [u \in {1} |-> AskCorpus]
    /\ nextObj = 1
    /\ inflight = <<>>
    /\ \E q \in Questions, r \in RagTypes, e \in AskEnvs :
          resp = [op |-> "ask_request", user |-> 1, question |-> q,
                  rag_type |-> r, env |-> e]

\* the pending request is answered (lines 712-754, the write left out)
ask_answer ==
    /\ resp.op = "ask_request"
    /\ resp' = [op |-> "ask_answer", user |-> resp.user, request |-> resp,
                out |-> AskResult(get_user_session(resp.user), resp.question,
                                  resp.rag_type, resp.env)]
    /\ UNCHANGED <<users, sessions, documents, conversations, user_sessions,
                   now, nextToken, nextObj, inflight>>

NextAsk == ask_answer

SpecAsk == InitAsk /\ [][NextAsk]_vars

\* ================================================================ claims
\* the corpus fields of a session
Corpus(sess) ==
    [documents |-> sess.documents, source_name |-> sess.source_name,
     source_type |-> sess.source_type, vectorstore |-> sess.vectorstore,
     retriever |-> sess.retriever, document_id |-> sess.document_id]

NoCorpus(sess) == Corpus(sess) = Corpus(NewSession)

\* every corpus field is set, and by one ingestion: the Document, the name
\* and kind it carries, the index built from it and the row written for it
OneIngestion(uid, sess) ==
    /\ Len(sess.documents) = 1
    /\ sess.source_name = Some(sess.documents[1].source)
    /\ sess.source_type = Some(sess.documents[1].type)
    /\ sess.vectorstore # None
    /\ sess.vectorstore[1].obj = sess.documents[1].obj
    /\ \A c \in Range(sess.vectorstore[1].chunks) :
          c.obj = sess.documents[1].obj
    /\ sess.retriever # None
    /\ sess.retriever[1].store = sess.vectorstore[1]
    /\ sess.document_id # None
    /\ sess.document_id[1] \in 1..Len(documents)
    /\ LET row == documents[sess.document_id[1]]
       IN /\ row.user_id = uid
          /\ row.filename = sess.documents[1].source
          /\ row.source_type = sess.documents[1].type
          /\ row.chunks = Len(sess.vectorstore[1].chunks)

\* C1: an Upload that fails at indexing or at the write of the Document
\* Record leaves every corpus field of the user's session as it was before.
C1_UploadAllOrNothing ==
    [][(resp'.op = "upload" /\ resp'.status = 500)
         => Corpus(user_sessions'[resp'.user])
              = Corpus(get_user_session(resp'.user))]_vars

\* C2: right after a successful Upload, Status reports that upload's name,
\* kind and chunk count, and every chunk the retriever can return comes from
\* that upload's Document; in particular after a second successful Upload.
C2_SecondUploadReplaces ==
    (resp.op = "upload" /\ resp.status = 200) =>
        LET sess == user_sessions[resp.user]
        IN /\ StatusOf(sess) =
                [status |-> "ready", document_count |-> 1,
                 chunk_count |-> resp.chunks,
                 source_name |-> Some(resp.source),
                 source_type |-> Some(resp.source_type)]
           /\ sess.retriever # None
           /\ \A c \in Range(sess.retriever[1].store.chunks) :
                 /\ c.obj = nextObj
                 /\ c.source = resp.source
                 /\ c.type = resp.source_type

C2_Witness ==
    /\ resp.op = "upload" /\ resp.status = 200
    /\ Len(documents) = 2
    /\ documents[1].user_id = resp.user
    /\ documents[2].user_id = resp.user
    /\ documents[1].filename # documents[2].filename
    /\ documents[1].chunks > documents[2].chunks

\* C3: the session an Ask or a Status reads is either without corpus or
\* holds the corpus of one ingestion, whatever Uploads ran or are running.
C3_ReadsCommittedCorpus ==
    (resp.op \in {"ask", "status"} /\ resp.status # 401) =>
        \/ NoCorpus(user_sessions[resp.user])
        \/ OneIngestion(resp.user, user_sessions[resp.user])

\* C4: an Upload whose extracted text has fewer than 50 characters fails
\* with ContentTooShort, writes no Document Record and leaves the sessions
\* as they were.
C4_ShortTextRejected ==
    [][(/\ resp'.op = "upload"
        /\ resp'.status # 401
        /\ resp'.text # None
        /\ resp'.text[1] < MinContent)
         => /\ resp'.status = 400
            /\ resp'.detail = "ContentTooShort"
            /\ documents' = documents
            /\ user_sessions' = SessionsWith(resp'.user)]_vars

C4_Witness ==
    /\ resp.op = "upload" /\ resp.status = 400
    /\ resp.detail = "ContentTooShort"
    /\ resp.text = Some(MinContent - 1)
    /\ user_sessions[resp.user].vectorstore # None
    /\ user_sessions[resp.user].document_id # None

C6_UnknownTagIsBasic ==
    (resp.op = "ask_answer"
       /\ resp.request.rag_type \notin {"basic", "multi_query", "hyde"}) =>
        LET basic == AskResult(get_user_session(resp.user),
                               resp.request.question, "basic",
                               resp.request.env)
        IN /\ resp.out.status = basic.status
           /\ resp.out.calls = basic.calls
           /\ resp.out.answer = basic.answer
           /\ resp.out.sources = basic.sources

C6_Witness ==
    /\ resp.op = "ask_answer"
    /\ resp.request.rag_type = "other"
    /\ resp.out.status = 200
    /\ Len(resp.out.sources) = 2

\* positions of a text in a list of docs
Positions(docs, text) ==
    {i \in 1..Len(docs) : docs[i].page_content = text}

Min(S) == CHOOSE x \in S : \A y \in S : x <= y
Max(S) == CHOOSE x \in S : \A y \in S : x >= y

\* the merge of Multi-Query: every text retrieved appears once, the texts
\* are in the order of their first retrieval, and the context of the answer
\* is these texts; Kept(flat, text) is the instance the merge keeps
MergeIs(chain, Kept(_, _)) ==
    LET flat == Flatten(chain.doc_lists)
        unique == chain.context
    IN /\ \A d \in Range(flat) :
             Cardinality(Positions(unique, d.page_content)) = 1
       /\ \A i \in 1..Len(unique) :
             /\ Positions(flat, unique[i].page_content) # {}
             /\ unique[i] = Kept(flat, unique[i].page_content)
       /\ \A i, j \in 1..Len(unique) :
             i < j => Min(Positions(flat, unique[i].page_content))
                        < Min(Positions(flat, unique[j].page_content))
       /\ Last(chain.calls).svc = "generate"
       /\ Last(chain.calls).context =
             [i \in 1..Len(unique) |-> unique[i].page_content]

FirstRetrieved(flat, text) == flat[Min(Positions(flat, text))]
LastRetrieved(flat, text) == flat[Max(Positions(flat, text))]

MultiQueryAnswered ==
    /\ resp.op = "ask_answer"
    /\ resp.request.rag_type = "multi_query"
    /\ resp.out.chain # None
    /\ resp.out.chain[1].ok

\* C7 (as claimed): the merge keeps, for each text, the instance retrieved
\* first.
C7_FirstInstanceKept ==
    MultiQueryAnswered => MergeIs(resp.out.chain[1], FirstRetrieved)

\* C7 (amended): every text retrieved appears once in the merged list, in
\* the order of first retrieval, and once in the context; the instance kept
\* for a text is the one retrieved last.
C7_MergeUnique ==
    MultiQueryAnswered => MergeIs(resp.out.chain[1], LastRetrieved)

C7_Witness ==
    /\ MultiQueryAnswered
    /\ resp.out.status = 200
    /\ LET flat == Flatten(resp.out.chain[1].doc_lists)
       IN /\ Len(resp.out.chain[1].doc_lists) = 2
          /\ \E i, j \in 1..Len(flat) :
                /\ i < j
                /\ flat[i].page_content = flat[j].page_content
                /\ flat[i].call # flat[j].call
          /\ Len(resp.out.chain[1].context) = 2

\* C8: a Register naming the handle or the contact of an existing user is
\* refused with Conflict and writes no user and no token; and no two users
\* ever share a handle or a contact.
C8_RegisterConflict ==
    [][/\ (/\ resp'.op = "register"
           /\ \E i \in 1..Len(users) :
                 \/ users[i].username = resp'.username
                 \/ users[i].email = resp'.email)
            => /\ resp'.status = 400
               /\ users' = users
               /\ sessions' = sessions
       /\ \A i, j \in 1..Len(users') :
             i # j => /\ users'[i].username # users'[j].username
                      /\ users'[i].email # users'[j].email
                      /\ users'[i].id # users'[j].id]_vars

C8_Witness ==
    /\ resp.op = "register" /\ resp.status = 400
    /\ \E i, j \in 1..Len(users) :
          /\ i # j
          /\ users[i].username = resp.username
          /\ users[j].email = resp.email

\* C9: while the token a Register returned is stored and not expired,
\* Validate accepts it and returns the id, handle and contact of the user
\* that Register created.
C9_RegisterTokenValidates ==
    /\ \A s \in sessions :
          (s.by = "register" /\ now < s.created_at + TokenDays) =>
              /\ verify_token(Some(s.token)) =
                    Some([user_id |-> s.user_id, username |-> s.name,
                          email |-> s.mail])
              /\ \E i \in 1..Len(users) :
                    /\ users[i].id = s.user_id
                    /\ users[i].username = s.name
                    /\ users[i].email = s.mail
    /\ (resp.op = "register" /\ resp.status = 200) =>
          /\ verify_token(Some(resp.token)) # None
          /\ verify_token(Some(resp.token))[1].username = resp.username
          /\ verify_token(Some(resp.token))[1].email = resp.email
          /\ verify_token(Some(resp.token))[1].user_id = Last(users).id
    /\ (resp.op = "me" /\ resp.status = 200) =>
          \A s \in sessions :
              s.token = resp.token[1] =>
                  resp.user = [user_id |-> s.user_id, username |-> s.name,
                               email |-> s.mail]

C9_Witness ==
    /\ resp.op = "me" /\ resp.status = 200
    /\ resp.user.user_id = 2
    /\ \E s \in sessions :
          /\ s.token = resp.token[1]
          /\ s.by = "register"
          /\ now > s.created_at

\* C10: Validate accepts a token exactly when a record of it is stored and
\* the time is before the record's issuance plus 7 days.
C10_ValidIffUnexpired ==
    /\ \A t \in TokenHeaders :
          verify_token(t) # None
            <=> \E s \in sessions :
                   t = Some(s.token) /\ now < s.created_at + TokenDays
    /\ resp.op = "me" =>
          (resp.status = 200
             <=> \E s \in sessions :
                    /\ resp.token = Some(s.token)
                    /\ now < s.created_at + TokenDays)

C10_Witness ==
    /\ resp.op = "me" /\ resp.status = 401
    /\ \E s \in sessions :
          /\ resp.token = Some(s.token)
          /\ now = s.created_at + TokenDays

\* C11 (as claimed): a Logout called with a token whose record is absent,
\* such as a second Logout with the same token, returns success and leaves
\* the token store unchanged.
C11_LogoutIdempotent ==
    [][(/\ resp'.op \in {"logout", "logout_validated"}
        /\ resp'.token # None
        /\ resp'.token[1] <= nextToken
        /\ ~\E s \in sessions : s.token = resp'.token[1])
         => /\ resp'.status # 401
            /\ sessions' = sessions]_vars

\* C12: a successful Login adds one fresh token and a Logout removes only
\* the token it was called with; every other token validates after the
\* step exactly as before it.
C12_TokensIndependent ==
    [][/\ (resp'.op = "login" /\ resp'.status = 200) =>
            /\ \A s \in sessions : s.token # resp'.token
            /\ \E row \in sessions' :
                  /\ row.token = resp'.token
                  /\ sessions' = sessions \cup {row}
            /\ \A s \in sessions :
                  /\ verify_token(Some(s.token))' = verify_token(Some(s.token))
                  /\ now < s.created_at + TokenDays
                       => verify_token(Some(s.token))' # None
       /\ (resp'.op = "logout" /\ resp'.status = 200) =>
            /\ sessions' = {s \in sessions : Some(s.token) # resp'.token}
            /\ \A s \in sessions :
                  Some(s.token) # resp'.token =>
                     /\ verify_token(Some(s.token))'
                          = verify_token(Some(s.token))
                     /\ now < s.created_at + TokenDays
                          => verify_token(Some(s.token))' # None]_vars

\* a Logout of alice's first token has removed it while her second token
\* and bob's token still validate
C12_Witness ==
    /\ resp.op = "logout" /\ resp.status = 200
    /\ resp.token = Some(1)
    /\ \A s \in sessions : s.token # 1
    /\ \E s \in sessions :
          /\ s.user_id = 1 /\ s.by = "login"
          /\ verify_token(Some(s.token)) # None
    /\ \E s \in sessions :
          /\ s.user_id = 2
          /\ verify_token(Some(s.token)) # None

\* C13 (as claimed): an Upload that supplies both a file and a URL, or
\* neither, fails with BadRequest and leaves the user's session and the
\* documents table unchanged.
C13_FileXorUrl ==
    [][(/\ resp'.op \in {"upload", "upload_read"}
        /\ "given" \in DOMAIN resp'
        /\ resp'.given \in {"both", "neither"})
         => /\ resp'.op = "upload"
            /\ resp'.status = 400
            /\ resp'.detail = "BadRequest"
            /\ documents' = documents
            /\ Corpus(user_sessions'[resp'.user])
                 = Corpus(get_user_session(resp'.user))]_vars

\* C14: an Ask appends one record, under the id of the user its token
\* validates to, and no record is changed afterwards; every record a
\* History returns is a record of the requesting user, and no record of
\* another user is returned.
C14_HistoryScoped ==
    [][/\ \A i \in 1..Len(conversations) :
             /\ i <= Len(conversations')
             /\ conversations'[i] = conversations[i]
       /\ (resp'.op = "ask" /\ resp'.status = 200) =>
             /\ verify_token(resp'.token) # None
             /\ resp'.user = verify_token(resp'.token)[1].user_id
             /\ Len(conversations') = Len(conversations) + 1
             /\ Last(conversations').user_id = resp'.user
             /\ \A i \in 1..Len(conversations) :
                   conversations[i].id # Last(conversations').id
       /\ (resp'.op = "history" /\ resp'.status = 200) =>
             /\ verify_token(resp'.token) # None
             /\ resp'.user = verify_token(resp'.token)[1].user_id
             /\ conversations' = conversations
             /\ \A k \in DOMAIN resp'.history :
                   \E i \in 1..Len(conversations) :
                      /\ conversations[i].id = resp'.history[k].id
                      /\ conversations[i].user_id = resp'.user
                      /\ conversations[i].question = resp'.history[k].question
                      /\ conversations[i].answer = resp'.history[k].answer
             /\ \A i \in 1..Len(conversations) :
                   conversations[i].user_id # resp'.user =>
                      \A k \in DOMAIN resp'.history :
                         resp'.history[k].id # conversations[i].id]_vars

\* a History of one user returns a record while the other user has one
C14_Witness ==
    /\ resp.op = "history" /\ resp.status = 200
    /\ Len(resp.history) = 1
    /\ \E i \in 1..Len(conversations) :
          conversations[i].user_id # resp.user
    /\ conversations[1].user_id # resp.user

\* C15 (as claimed): a History returns at most 50 records, the requesting
\* user's most recent ones, each with a timestamp strictly greater than the
\* next one's, also when Asks were recorded at the same clock value.
C15_HistoryStrictlyDescending ==
    (resp.op = "history" /\ resp.status = 200) =>
        LET h == resp.history
            own == {i \in 1..Len(conversations) :
                       conversations[i].user_id = resp.user}
        IN /\ Len(h) <= HistoryLimit
           /\ Len(h) = IF Cardinality(own) < HistoryLimit
                       THEN Cardinality(own) ELSE HistoryLimit
           /\ \A i \in own :
                 (\A k \in DOMAIN h : h[k].id # conversations[i].id) =>
                    \A k \in DOMAIN h :
                       conversations[i].created_at <= h[k].created_at
           /\ \A k \in 1..(Len(h) - 1) :
                 h[k].created_at > h[k + 1].created_at

\* the chunks a session's index and retriever hold
StoreChunks(sess) ==
    (IF sess.vectorstore = None THEN {}
     ELSE Range(sess.vectorstore[1].chunks))
    \cup (IF sess.retriever = None THEN {}
          ELSE Range(sess.retriever[1].store.chunks))

\* the Document objects a session refers to
Objs(sess) ==
    {doc.obj : doc \in Range(sess.documents)}
    \cup {c.obj : c \in StoreChunks(sess)}
    \cup (IF sess.vectorstore = None THEN {} ELSE {sess.vectorstore[1].obj})

\* C16: a step taken for one user (Upload, Ask, Clear, Status; answered
\* with success or with an error) leaves every other user's session as it
\* was, and a step of Logout or a refused step leaves every session as it
\* was; a chunk enters a user's index only from the Document that user's
\* own Upload constructs in that step, the chunks an Ask retrieves are
\* chunks of the asking user's index, and no Document object is referred
\* to by two users' sessions.
C16_UsersIsolated ==
    [][/\ IF "user" \in DOMAIN resp'
          THEN LET u == resp'.user IN
               /\ \A v \in DOMAIN user_sessions :
                     v # u => /\ v \in DOMAIN user_sessions'
                              /\ user_sessions'[v] = user_sessions[v]
               /\ \A c \in StoreChunks(user_sessions'[u]) :
                     \/ c \in StoreChunks(get_user_session(u))
                     \/ (resp'.op = "upload" /\ nextObj' = nextObj + 1
                           /\ c.obj = nextObj')
               /\ (resp'.op = "ask" /\ resp'.chain # None) =>
                     \A doc \in Range(resp'.chain[1].context) :
                        \E c \in StoreChunks(get_user_session(u)) :
                           /\ c.obj = doc.obj
                           /\ c.idx = doc.idx
                           /\ c.page_content = doc.page_content
          ELSE user_sessions' = user_sessions
       /\ \A u, v \in DOMAIN user_sessions' :
             u # v => Objs(user_sessions'[u]) \cap Objs(user_sessions'[v]) = {}
      ]_vars

\* bob is answered from his first corpus after alice has uploaded again
\* and her token is logged out
C16_Witness ==
    /\ resp.op = "ask" /\ resp.status = 200 /\ resp.user = 2
    /\ user_sessions[2] = CorpusOf(2, "Page", "url", 2)
    /\ Objs(user_sessions[1]) = {3}
    /\ user_sessions[1].vectorstore # None
    /\ \A s \in sessions : s.token # 3

\* C17 (as claimed): a Clear unsets every corpus field from any state and
\* leaves the documents and conversations tables as they were (so a
\* repeated Clear changes nothing); from then until an Upload of the user
\* succeeds, Status reports no document and Ask fails with BadRequest.
C17_ClearResets ==
    [][/\ (resp'.op = "clear" /\ resp'.status = 200) =>
             /\ NoCorpus(user_sessions'[resp'.user])
             /\ StatusOf(user_sessions'[resp'.user]).status = "no_document"
             /\ documents' = documents
             /\ conversations' = conversations
       /\ (/\ resp'.op = "status"
           /\ resp'.status # 401
           /\ get_user_session(resp'.user).cleared)
            => resp'.body.status = "no_document"
       /\ (/\ resp'.op = "ask"
           /\ resp'.status # 401
           /\ get_user_session(resp'.user).cleared)
            => /\ resp'.status = 400
               /\ resp'.detail = "BadRequest"]_vars

\* a token header that is absent, names no stored record, or names a
\* record issued 7 days ago or more
InvalidHeader(token) ==
    \/ token = None
    \/ \A s \in sessions :
          s.token = token[1] => now >= s.created_at + TokenDays

\* the answers of the protected handlers; a step that shortens inflight
\* resumes a call validated earlier
ProtectedOps ==
    {"me", "status", "upload", "upload_read", "ask", "history", "clear",
     "logout", "logout_validated"}

\* C18: a protected operation (WhoAmI, Status, Upload, Ask, History, Clear,
\* Logout) called with an absent, unknown or expired token answers
\* Unauthorized; a step that answers Unauthorized changes nothing, and
\* neither does a validation.
C18_UnauthorizedNoEffect ==
    [][/\ (/\ resp'.op \in ProtectedOps
           /\ Len(inflight') >= Len(inflight)
           /\ InvalidHeader(resp'.token))
            => resp'.status = 401
       /\ resp'.status = 401 =>
             /\ resp'.op \in ProtectedOps
             /\ InvalidHeader(resp'.token)
             /\ UNCHANGED <<users, sessions, documents, conversations,
                            user_sessions, now, nextToken, nextObj,
                            inflight>>
       /\ resp'.op \in {"me", "logout_validated"} =>
             UNCHANGED <<users, sessions, documents, conversations,
                         user_sessions, now, nextToken, nextObj>>]_vars

\* an Upload with alice's expired token is refused while alice holds a
\* corpus and has a record in conversations
C18_Witness ==
    /\ resp.op = "upload" /\ resp.status = 401
    /\ resp.token = Some(1)
    /\ \E s \in sessions : s.token = 1
    /\ user_sessions[1].retriever # None
    /\ Len(conversations) = 1

\* C19 (as claimed): whenever no Upload of a user is suspended, the user's
\* corpus fields are all unset, or all set and all produced by one
\* ingestion.
C19_OneCorpusOrNone ==
    \A u \in DOMAIN user_sessions :
        (\A k \in 1..Len(inflight) :
            inflight[k].op = "upload" => inflight[k].user # u)
          => \/ NoCorpus(user_sessions[u])
             \/ OneIngestion(u, user_sessions[u])

\* C20 (as claimed): an Upload whose write of the Document Record fails
\* after the index is built reports no error and leaves the new corpus
\* active, and an Ask against that corpus, with the collaborators
\* answering, returns an answer.
C20_RecordWriteNotFatal ==
    [][/\ (resp'.op = "upload" /\ resp'.status # 401
             /\ user_sessions'[resp'.user].hist = "unsaved"
             /\ resp'.detail = "insert")
            => /\ resp'.status = 200
               /\ user_sessions'[resp'.user].retriever # None
               /\ user_sessions'[resp'.user].vectorstore[1].obj = nextObj'
       /\ (resp'.op = "ask" /\ resp'.status # 401
             /\ get_user_session(resp'.user).hist = "unsaved")
            => \/ resp'.status = 200 /\ resp'.answer # None
               \/ resp'.detail \in {"chain", "sources", "save"}]_vars

\* a generation or retrieval call of the request's strategy, or the
\* retrieval of the excerpts, fails, the retrievals of the generated
\* queries of Multi-Query aside
UpstreamFails(request) ==
    LET env == request.env
        rag_type == request.rag_type
    IN \/ env.src = None
       \/ rag_type = "multi_query" /\ (~env.gen[1] \/ ~env.gen[2])
       \/ rag_type = "hyde"
             /\ (~env.gen[1] \/ env.ctx[1] = None \/ ~env.gen[2])
       \/ rag_type \notin {"multi_query", "hyde"}
             /\ (env.ctx[1] = None \/ ~env.gen[2])

\* C21: in Multi-Query, whichever of the generated queries fail to
\* retrieve, the chunks of every query that retrieves are in the merged
\* context, the final generation is called with that context, and the Ask
\* does not fail for it; an Ask in which any other generation or retrieval
\* call fails is answered with UpstreamFailure (500) and no answer.
C21_QueryFailureSkipped ==
    (resp.op = "ask_answer") =>
        LET request == resp.request
            env == request.env
            out == resp.out
            retriever == get_user_session(resp.user).retriever
        IN /\ (request.rag_type = "multi_query"
                  /\ env.gen[1] /\ env.gen[2]) =>
                 LET chain == out.chain[1] IN
                 /\ chain.ok
                 /\ \A i \in 1..env.nq :
                       env.ctx[i] # None =>
                         \A d \in Range(get_relevant_documents(
                                           retriever, env.ctx[i], i)[1]) :
                            \E c \in Range(chain.context) :
                               c.page_content = d.page_content
                 /\ \A c \in Range(chain.context) :
                       \E i \in 1..env.nq :
                          /\ env.ctx[i] # None
                          /\ c.call = i
                 /\ Last(chain.calls) =
                       GenerateCall("multi_query",
                                    format_docs(chain.context),
                                    Strip(request.question))
                 /\ out.detail # "chain"
                 /\ env.src # None => out.detail # "sources"
           /\ UpstreamFails(request) =>
                 /\ out.status = 500
                 /\ out.detail \in {"chain", "sources"}
                 /\ out.answer = None

\* the first generated query fails to retrieve, the second retrieves two
\* chunks, and the Ask is answered from them
C21_Witness ==
    /\ resp.op = "ask_answer"
    /\ resp.request.rag_type = "multi_query"
    /\ resp.request.env.nq = 2
    /\ resp.request.env.ctx[1] = None
    /\ resp.request.env.ctx[2] # None
    /\ resp.out.status = 200
    /\ Len(resp.out.chain[1].context) = 2
    /\ resp.out.answer # None

\* C22 (as claimed): the tag of every Conversation Record is one of basic,
\* multi_query, hyde and is the strategy whose final prompt produced the
\* record's answer; a record answered by Basic for an unrecognized tag
\* carries basic.
C22_RecordedTagIsUsed ==
    \A i \in 1..Len(conversations) :
        /\ conversations[i].rag_type \in {"basic", "multi_query", "hyde"}
        /\ conversations[i].rag_type = conversations[i].answer.tpl

\* C23 (as claimed): the document id of every Conversation Record is the
\* id of a Document Record of the record's user, and the record an Ask
\* appends names the Document Record written by the ingestion that built
\* the index the Ask was answered from.
C23_ConversationNamesItsDocument ==
    [][/\ \A i \in 1..Len(conversations') :
             /\ conversations'[i].document_id \in 1..Len(documents')
             /\ documents'[conversations'[i].document_id].user_id
                   = conversations'[i].user_id
       /\ (resp'.op = "ask" /\ resp'.status = 200) =>
             LET row == Last(conversations')
                 sess == get_user_session(resp'.user)
             IN /\ Len(conversations') = Len(conversations) + 1
                /\ row.user_id = resp'.user
                /\ documents[row.document_id].obj = sess.vectorstore[1].obj
      ]_vars

\* C24: an Ask that returns an answer appends one Conversation Record, with
\* the question asked (stripped), the answer returned and the asking user;
\* an Ask that fails, for want of a corpus or because a retrieval, a
\* generation or the write fails, leaves the log and the asker's session as
\* they were; no step of any operation changes or removes a record.
C24_AppendIffAnswered ==
    [][/\ Len(conversations') >= Len(conversations)
       /\ \A i \in 1..Len(conversations) :
             conversations'[i] = conversations[i]
       /\ (resp'.op = "ask" /\ resp'.status = 200) =>
             /\ resp'.answer # None
             /\ Len(conversations') = Len(conversations) + 1
             /\ Last(conversations').question = resp'.question
             /\ Last(conversations').answer = resp'.answer[1]
             /\ Last(conversations').user_id = resp'.user
       /\ (resp'.op = "ask" /\ resp'.status \in {400, 500}) =>
             /\ resp'.answer = None
             /\ conversations' = conversations
             /\ user_sessions'[resp'.user] = get_user_session(resp'.user)
       /\ resp'.op # "ask" => conversations' = conversations
      ]_vars

\* a second record is appended; Asks have failed for each of the reasons
C24_Witness ==
    /\ resp.op = "ask" /\ resp.status = 200
    /\ Len(conversations) = 2
    /\ conversations[1].user_id # conversations[2].user_id

====
